---------------------------- MODULE Spec2Model ----------------------------
(***************************************************************************)
(* State-machine model of src/src/App.tsx: the toast store, the model      *)
(* list held by App, the registration form (RegisterPage) and the two chat *)
(* pages (ChatPage, BlockExplorerChat) with their request lifecycle.       *)
(*                                                                         *)
(* Strings are sequences of one-character strings, so that trim() and      *)
(* JSON.parse() are computed character by character.  JavaScript values    *)
(* are records [t |-> <typeof-like tag>, v |-> <payload>].                 *)
(*                                                                         *)
(* One action is one handler or continuation together with the render and  *)
(* the effects React runs for the state it sets.  Left out: the id of a    *)
(* ChatMessage (crypto.randomUUID(), read only as a React key) and the     *)
(* sidebar's collapsed flag.                                               *)
(*                                                                         *)
(* Two specifications share the state: Spec runs App with the two chat     *)
(* pages, AppSpec runs App with RegisterPage, the refreshes of the model   *)
(* list and the teardown of App.  The pages meet only in the toast store   *)
(* and the model list, which both specifications carry.                    *)
(***************************************************************************)
EXTENDS Integers, Sequences, FiniteSets, TLC

(***************************************************************************)
(* Bounds of the model.                                                    *)
(***************************************************************************)
MaxMessages == 2       \* a send is taken only while the conversation is shorter
MaxRequests == 2       \* a send is taken only while fewer requests are in flight
MaxToasts == 1         \* a chat failure is delivered only while the store holds fewer toasts
TicksPerTimeout == 2   \* clock resolution: ticks in one toast timeout
MaxFetches == 2        \* a refresh is issued only while fewer GET / were issued since load
MaxRegistrations == 1  \* a submit is taken only while fewer POST /register are in flight

(***************************************************************************)
(* Strings                                                                 *)
(***************************************************************************)
Whitespace == {" ", "\t", "\n"}

RECURSIVE TrimStart(_)
TrimStart(s) ==
  IF s # <<>> /\ Head(s) \in Whitespace THEN TrimStart(Tail(s)) ELSE s

RECURSIVE TrimEnd(_)
TrimEnd(s) ==
  IF s # <<>> /\ s[Len(s)] \in Whitespace
    THEN TrimEnd(SubSeq(s, 1, Len(s) - 1))
    ELSE s

\* String.prototype.trim
Trim(s) == TrimEnd(TrimStart(s))

\* the texts a user puts into a textarea (onChange delivers the whole value)
Inputs == {<<>>, <<" ">>, <<"a">>, <<" ", "a", " ">>}

(***************************************************************************)
(* JavaScript values                                                       *)
(***************************************************************************)
Undefined == [t |-> "undefined", v |-> <<>>]
JsNull == [t |-> "null", v |-> <<>>]
JsString(s) == [t |-> "string", v |-> s]
JsNumber(lexeme) == [t |-> "number", v |-> lexeme]
JsBoolean(lexeme) == [t |-> "boolean", v |-> lexeme]
JsArray(items) == [t |-> "array", v |-> items]
\* an object is the sequence of its <<key, value>> members in source order
JsObject(members) == [t |-> "object", v |-> members]

RECURSIVE LookUp(_, _, _)
LookUp(members, key, i) ==
  IF i = 0 THEN Undefined
  ELSE IF members[i][1] = key THEN members[i][2]
  ELSE LookUp(members, key, i - 1)

\* `key in val` for an object or array val and a non-index key
HasProp(val, key) ==
  /\ val.t = "object"
  /\ \E i \in 1..Len(val.v) : val.v[i][1] = key

\* val.key throws a TypeError when val is null or undefined
PropThrows(val) == val.t \in {"null", "undefined"}

\* val.key for a key that no primitive wrapper or array defines;
\* a duplicated member name keeps its last value
Prop(val, key) ==
  IF val.t = "object" THEN LookUp(val.v, key, Len(val.v)) ELSE Undefined

(***************************************************************************)
(* JSON.parse, for texts over: whitespace, the structural characters,      *)
(* string literals with the escapes \" \\ \/ \n \t, integers, and the      *)
(* literals null, true, false.                                             *)
(***************************************************************************)
Digits == {"0", "1", "2", "3", "4", "5", "6", "7", "8", "9"}

ParseFail == [ok |-> FALSE, val |-> Undefined, pos |-> 0]
ParseOk(val, pos) == [ok |-> TRUE, val |-> val, pos |-> pos]

RECURSIVE SkipWs(_, _)
SkipWs(s, i) ==
  IF i <= Len(s) /\ s[i] \in Whitespace THEN SkipWs(s, i + 1) ELSE i

At(s, i) == IF i <= Len(s) THEN s[i] ELSE "EOF"

StartsWith(s, i, word) ==
  /\ i + Len(word) - 1 <= Len(s)
  /\ SubSeq(s, i, i + Len(word) - 1) = word

\* i is the position after the opening quote
RECURSIVE ScanString(_, _, _)
ScanString(s, i, acc) ==
  IF i > Len(s) THEN ParseFail
  ELSE IF s[i] = "\"" THEN ParseOk(JsString(acc), i + 1)
  ELSE IF s[i] = "\\" THEN
    IF At(s, i + 1) \in {"\"", "\\", "/"}
      THEN ScanString(s, i + 2, Append(acc, s[i + 1]))
    ELSE IF At(s, i + 1) = "n" THEN ScanString(s, i + 2, Append(acc, "\n"))
    ELSE IF At(s, i + 1) = "t" THEN ScanString(s, i + 2, Append(acc, "\t"))
    ELSE ParseFail
  ELSE IF s[i] \in {"\n", "\t"} THEN ParseFail
  ELSE ScanString(s, i + 1, Append(acc, s[i]))

RECURSIVE ScanDigits(_, _)
ScanDigits(s, i) ==
  IF At(s, i) \in Digits THEN ScanDigits(s, i + 1) ELSE i

\* an integer: -? (0 | [1-9][0-9]*)
ScanNumber(s, i) ==
  LET first == IF At(s, i) = "-" THEN i + 1 ELSE i
      end == IF At(s, first) = "0" THEN first + 1 ELSE ScanDigits(s, first)
  IN  IF end = first THEN ParseFail
      ELSE ParseOk(JsNumber(SubSeq(s, i, end - 1)), end)

RECURSIVE ParseValue(_, _)
RECURSIVE ParseElements(_, _, _)
RECURSIVE ParseMembers(_, _, _)

\* the value that starts at or after position i, and the position after it
ParseValue(s, i) ==
  LET j == SkipWs(s, i)
      c == At(s, j)
  IN  IF c = "\"" THEN ScanString(s, j + 1, <<>>)
      ELSE IF c \in Digits \cup {"-"} THEN ScanNumber(s, j)
      ELSE IF StartsWith(s, j, <<"n", "u", "l", "l">>) THEN ParseOk(JsNull, j + 4)
      ELSE IF StartsWith(s, j, <<"t", "r", "u", "e">>)
        THEN ParseOk(JsBoolean(<<"t", "r", "u", "e">>), j + 4)
      ELSE IF StartsWith(s, j, <<"f", "a", "l", "s", "e">>)
        THEN ParseOk(JsBoolean(<<"f", "a", "l", "s", "e">>), j + 5)
      ELSE IF c = "[" THEN
        IF At(s, SkipWs(s, j + 1)) = "]"
          THEN ParseOk(JsArray(<<>>), SkipWs(s, j + 1) + 1)
          ELSE ParseElements(s, j + 1, <<>>)
      ELSE IF c = "{" THEN
        IF At(s, SkipWs(s, j + 1)) = "}"
          THEN ParseOk(JsObject(<<>>), SkipWs(s, j + 1) + 1)
          ELSE ParseMembers(s, j + 1, <<>>)
      ELSE ParseFail

\* value ("," value)* "]"
ParseElements(s, i, acc) ==
  LET r == ParseValue(s, i)
      k == IF r.ok THEN SkipWs(s, r.pos) ELSE 0
  IN  IF ~r.ok THEN ParseFail
      ELSE IF At(s, k) = "," THEN ParseElements(s, k + 1, Append(acc, r.val))
      ELSE IF At(s, k) = "]" THEN ParseOk(JsArray(Append(acc, r.val)), k + 1)
      ELSE ParseFail

\* string ":" value ("," string ":" value)* "}"
ParseMembers(s, i, acc) ==
  LET j == SkipWs(s, i)
      key == IF At(s, j) = "\"" THEN ScanString(s, j + 1, <<>>) ELSE ParseFail
      colon == IF key.ok THEN SkipWs(s, key.pos) ELSE 0
      r == IF key.ok /\ At(s, colon) = ":" THEN ParseValue(s, colon + 1) ELSE ParseFail
      k == IF r.ok THEN SkipWs(s, r.pos) ELSE 0
      members == Append(acc, <<key.val.v, r.val>>)
  IN  IF ~r.ok THEN ParseFail
      ELSE IF At(s, k) = "," THEN ParseMembers(s, k + 1, members)
      ELSE IF At(s, k) = "}" THEN ParseOk(JsObject(members), k + 1)
      ELSE ParseFail

\* nothing but whitespace may follow the value
Complete(s, r) ==
  IF r.ok /\ SkipWs(s, r.pos) = Len(s) + 1 THEN r ELSE ParseFail

\* JSON.parse(s): ok = FALSE stands for the SyntaxError it throws
JSONParse(s) == Complete(s, ParseValue(s, 1))


(***************************************************************************)
(* Text constants                                                          *)
(***************************************************************************)
Auto == <<"a", "u", "t", "o">>
RESPONSE == <<"r", "e", "s", "p", "o", "n", "s", "e">>
RESPONSE_GENERATED_VIA ==
  RESPONSE \o <<"_", "g", "e", "n", "e", "r", "a", "t", "e", "d", "_", "v", "i", "a">>
ID == <<"i", "d">>
RequestFailed ==
  <<"R", "e", "q", "u", "e", "s", "t", " ", "f", "a", "i", "l", "e", "d">>
\* messages of errors the runtime raises (their wording is the engine's)
FailedToFetch ==
  <<"F", "a", "i", "l", "e", "d", " ", "t", "o", " ", "f", "e", "t", "c", "h">>
UnexpectedToken ==
  <<"U", "n", "e", "x", "p", "e", "c", "t", "e", "d", " ", "t", "o", "k", "e", "n">>
CannotReadProperties ==
  <<"C", "a", "n", "n", "o", "t", " ", "r", "e", "a", "d", " ",
    "p", "r", "o", "p", "e", "r", "t", "i", "e", "s">>

Quoted(s) == <<"\"">> \o s \o <<"\"">>

(***************************************************************************)
(* Responses of the two backends                                           *)
(***************************************************************************)
\* fetch() rejects
Rejected(message) == [kind |-> "reject", ok |-> FALSE, body |-> message]
\* fetch() resolves; ok is res.ok and body is what res.text() reads
Http(ok, body) == [kind |-> "http", ok |-> ok, body |-> body]
NoResponse == [kind |-> "none", ok |-> FALSE, body |-> <<>>]

Hi == <<"H", "i">>
Gpt == <<"g", "p", "t">>
ModelNotFound ==
  <<"m", "o", "d", "e", "l", " ", "n", "o", "t", " ", "f", "o", "u", "n", "d">>

\* {"response":"Hi","response_generated_via":"gpt"}
ChatReplyBody ==
  <<"{">> \o Quoted(RESPONSE) \o <<":">> \o Quoted(Hi) \o <<",">>
    \o Quoted(RESPONSE_GENERATED_VIA) \o <<":">> \o Quoted(Gpt) \o <<"}">>
\* {"response":"Hi"}
ResponseObjectBody == <<"{">> \o Quoted(RESPONSE) \o <<":">> \o Quoted(Hi) \o <<"}">>
\* {"response":1}
ResponseNumberBody == <<"{">> \o Quoted(RESPONSE) \o <<":", "1", "}">>
\* {}
EmptyObjectBody == <<"{", "}">>
NullBody == <<"n", "u", "l", "l">>

Failures == {Rejected(FailedToFetch), Http(FALSE, ModelNotFound), Http(FALSE, <<>>)}

ChatResponses ==
  Failures \cup
  { Http(TRUE, ChatReplyBody), Http(TRUE, EmptyObjectBody), Http(TRUE, Quoted(Hi)),
    Http(TRUE, NullBody), Http(TRUE, Hi) }

BlockExplorerResponses ==
  Failures \cup
  { Http(TRUE, Hi), Http(TRUE, Quoted(Hi)), Http(TRUE, ResponseObjectBody),
    Http(TRUE, ResponseNumberBody) }

\* [] and [{"id":7}]: the registry answers GET / with a JSON array of Llm
ModelListBodies ==
  { <<"[", "]">>, <<"[", "{">> \o Quoted(ID) \o <<":", "7", "}", "]">> }

ModelResponses == {Http(FALSE, ModelNotFound)} \cup {Http(TRUE, b) : b \in ModelListBodies}

(***************************************************************************)
(* API client                                                              *)
(***************************************************************************)
\* an Error object; a returned value
Throw(message) == [threw |-> TRUE, message |-> message, data |-> Undefined]
Return(data) == [threw |-> FALSE, message |-> <<>>, data |-> data]

\* fetch, then `if (!res.ok) throw new Error(await res.text())`
Fetched(resp) ==
  IF resp.kind = "reject" THEN Throw(resp.body)
  ELSE IF ~resp.ok THEN Throw(resp.body)
  ELSE Return(JsString(resp.body))

\* res.json()
JsonResult(p) == IF p.ok THEN Return(p.val) ELSE Throw(UnexpectedToken)
ResJson(body) == JsonResult(JSONParse(body))

\* `return res.json()` unless the lines before it threw
ReturnJson(res) == IF res.threw THEN res ELSE ResJson(res.data.v)

ApiRequest(resp) == ReturnJson(Fetched(resp))

ApiGet(resp) == ApiRequest(resp)
ApiPost(resp) == ApiRequest(resp)

\* a bug to detect: the message is used as it is, without the fallback
ParseApiErrorWithoutFallback(e) == e.message

\* every value thrown in this program is an Error:
\*   if (e instanceof Error) return e.message || 'Request failed'
ParseApiError(e) == IF e.message # <<>> THEN e.message ELSE RequestFailed

(***************************************************************************)
(* State                                                                   *)
(***************************************************************************)
VARIABLES
  mounted,         \* App is mounted
  registerPage,    \* RegisterPage: the five fields and submitting
  registrations,   \* POST /register requests in flight
  fetchLog,        \* every GET / issued since load, in issue order, and its answer
  active,          \* App: the tab shown
  llms,            \* App: the model list, JsNull until a fetch succeeds
  loadingModels,   \* App
  modelFetches,    \* GET / requests in flight
  toasts,          \* useToastStore
  timers,          \* ToastContainer: the timeouts of its last effect run
  shownFor,        \* ticks since each toast of the store was pushed
  chatPage,        \* ChatPage: messages, input, loading, selectedModel
  chatOnEnter,     \* ChatPage: what the registered keydown listener closes over
  blockExplorer,   \* BlockExplorerChat: messages, input, loading
  explorerOnEnter, \* BlockExplorerChat: what its keydown listener closes over
  requests,        \* chat requests in flight, in issue order
  lastStep         \* the handler that ran last and the calls it made, in order

vars ==
  << mounted, registerPage, registrations, fetchLog, active, llms, loadingModels, modelFetches, toasts, timers, shownFor,
     chatPage, chatOnEnter, blockExplorer, explorerOnEnter, requests, lastStep >>

Tabs == {"chat", "register", "block-explorer"}

NoRequest == [page |-> "none", mounted |-> FALSE, query |-> <<>>, modelId |-> Undefined]

Step(op, page, by, effects) ==
  [op |-> op, page |-> page, by |-> by, effects |-> effects]
Other == Step("other", "none", "none", <<>>)

ChatPageInitial ==
  [messages |-> <<>>, input |-> <<>>, loading |-> FALSE, selectedModel |-> Auto]
BlockExplorerInitial == [messages |-> <<>>, input |-> <<>>, loading |-> FALSE]

\* what sendMessage reads from the render it was created in
ChatClosure(page) == [input |-> page.input, selectedModel |-> page.selectedModel]
ExplorerClosure(page) == [input |-> page.input]

RemoveAt(seq, i) == SubSeq(seq, 1, i - 1) \o SubSeq(seq, i + 1, Len(seq))

\* useState('') four times, useState(true), useState(false)
RegisterPageInitial ==
  [modelName |-> <<>>, companyName |-> <<>>, baseUrl |-> <<>>, apiKey |-> <<>>,
   openAiCompatible |-> TRUE, submitting |-> FALSE]

\* a GET / in flight: the n-th issued since load, by the mount effect of App
\* ("mount") or by reloadModels ("reload")
ModelFetch(origin, n) == [origin |-> origin, n |-> n]

\* the entries of fetchLog
Pending(origin) == [origin |-> origin, state |-> "pending", data |-> Undefined]
Answered(entry, data) == [entry EXCEPT !.state = "ok", !.data = data]
Failed(entry) == [entry EXCEPT !.state = "failed"]

\* the setters of a component that was unmounted change nothing
Unmounted(reqs) == [i \in 1..Len(reqs) |-> [reqs[i] EXCEPT !.mounted = FALSE]]

(***************************************************************************)
(* Toast store and ToastContainer                                          *)
(***************************************************************************)
\* setTimeout(..., 3500); the clock of the model ticks TicksPerTimeout times in it
ToastTimeoutMs == 3500
ElapsedMs(ticks) == (ticks * ToastTimeoutMs) \div TicksPerTimeout

ToastIds(ts) == {ts[i].id : i \in 1..Len(ts)}

\* Date.now() + Math.random(): a number that no toast of the store carries
FreshId(ts) == CHOOSE n \in 1..(Len(ts) + 1) : n \notin ToastIds(ts)

\* push: (t) => set((s) => ({ toasts: [...s.toasts, { id, ...t }] }))
Push(ts, text, type) == Append(ts, [id |-> FreshId(ts), text |-> text, type |-> type])

\* remove: (id) => set((s) => ({ toasts: s.toasts.filter((x) => x.id !== id) }))
Remove(ts, id) == SelectSeq(ts, LAMBDA x : x.id # id)

\* the effect of ToastContainer: the cleanup clears every timer of the last
\* run, then one timeout per toast of the new list is started
ScheduleTimers(ts) ==
  [i \in 1..Len(ts) |-> [id |-> ts[i].id, left |-> TicksPerTimeout]]

\* the store is set to ts: ToastContainer, when mounted, renders and its
\* effect runs again
SetToasts(ts) ==
  /\ toasts' = ts
  /\ timers' = IF mounted THEN ScheduleTimers(ts) ELSE <<>>
  /\ shownFor' = [id \in ToastIds(ts) |->
                    IF id \in ToastIds(toasts) THEN shownFor[id] ELSE 0]

ToastsUnchanged == UNCHANGED <<toasts, timers, shownFor>>

\* the callback of a timeout: () => remove(t.id); of the timeouts that are
\* due, the one started first runs first
TimerFires(i) ==
  /\ i \in 1..Len(timers)
  /\ timers[i].left = 0
  /\ \A j \in 1..(i - 1) : timers[j].left # 0
  /\ SetToasts(Remove(toasts, timers[i].id))
  /\ lastStep' = Other
  /\ UNCHANGED <<mounted, registerPage, registrations, fetchLog, active, llms, loadingModels, modelFetches, chatPage, chatOnEnter,
                 blockExplorer, explorerOnEnter, requests>>

Min(a, b) == IF a < b THEN a ELSE b
ShownCap == TicksPerTimeout + 1

\* one tick of the clock passes; a timeout that is due runs before time moves on
Tick ==
  /\ toasts # <<>>
  /\ \A i \in 1..Len(timers) : timers[i].left > 0
  /\ timers' = [i \in 1..Len(timers) |-> [timers[i] EXCEPT !.left = @ - 1]]
  /\ shownFor' = [id \in DOMAIN shownFor |-> Min(shownFor[id] + 1, ShownCap)]
  /\ lastStep' = Other
  /\ UNCHANGED <<mounted, registerPage, registrations, fetchLog, active, llms, loadingModels, modelFetches, toasts, chatPage,
                 chatOnEnter, blockExplorer, explorerOnEnter, requests>>


(***************************************************************************)
(* App: tabs and the model list                                            *)
(***************************************************************************)
\* a chat failure is delivered only while the store has room for its toast
Room == Len(toasts) < MaxToasts

\* the promise chain of the mount effect:
\*   apiGet('/').then(setLlms).catch(push).finally(() => setLoadingModels(false))
ModelsOutcome == [resp \in ModelResponses |-> ApiGet(resp)]

\* a bug to detect: a failed fetch leaves the empty list
LlmsEmptiedOnFailure(got, old) == IF got.threw THEN JsArray(<<>>) ELSE got.data

\* .then(setLlms): a rejection skips it
LlmsAfter(got, old) == IF got.threw THEN old ELSE got.data

\* the chain of reloadModels is the same without the .finally; a refresh that
\* fails is delivered only while the store has room for its toast
ModelsResponse(i, resp) ==
  LET got == ModelsOutcome[resp]
      fetch == modelFetches[i]
  IN  /\ i \in 1..Len(modelFetches)
      /\ resp \in ModelResponses
      /\ modelFetches' = RemoveAt(modelFetches, i)
      /\ fetchLog' = [fetchLog EXCEPT ![fetch.n] =
                        IF got.threw THEN Failed(@) ELSE Answered(@, got.data)]
      /\ IF got.threw
           THEN /\ fetch.origin = "reload" => Room
                /\ SetToasts(Push(toasts, ParseApiError(got), "error"))
           ELSE ToastsUnchanged
      /\ llms' = IF mounted THEN LlmsAfter(got, llms) ELSE llms
      /\ loadingModels' = IF mounted /\ fetch.origin = "mount" THEN FALSE
                                                                ELSE loadingModels
      /\ lastStep' = Other
      /\ UNCHANGED <<mounted, registerPage, registrations, active, chatPage, chatOnEnter,
                     blockExplorer, explorerOnEnter, requests>>

\* a nav button: setActive(tab).  The page that was shown is unmounted and its
\* state is gone; its requests stay in flight.  The page of the new tab is
\* mounted with its initial state, and its effect registers onEnter.
SetActive(tab) ==
  /\ mounted
  /\ tab \in Tabs
  /\ tab # active
  /\ active' = tab
  /\ chatPage' = ChatPageInitial
  /\ chatOnEnter' = ChatClosure(ChatPageInitial)
  /\ blockExplorer' = BlockExplorerInitial
  /\ explorerOnEnter' = ExplorerClosure(BlockExplorerInitial)
  /\ registerPage' = RegisterPageInitial
  /\ requests' = [i \in 1..Len(requests) |->
                    IF requests[i].page = active
                      THEN [requests[i] EXCEPT !.mounted = FALSE]
                      ELSE requests[i]]
  /\ registrations' = IF active = "register" THEN Unmounted(registrations)
                                             ELSE registrations
  /\ lastStep' = Other
  /\ UNCHANGED <<mounted, fetchLog, llms, loadingModels, modelFetches, toasts, timers,
                 shownFor>>

\* App is unmounted by the root that rendered it.  The cleanup of its effect
\* calls c.abort(), but c.signal was given to no fetch: GET / stays in flight,
\* as do the requests of its pages.  The state of App and of its pages is
\* gone, ToastContainer's cleanup clears its timers, and the toast store,
\* which is created with the module, remains.
Unmount ==
  /\ mounted
  /\ mounted' = FALSE
  /\ timers' = <<>>
  /\ chatPage' = ChatPageInitial
  /\ chatOnEnter' = ChatClosure(ChatPageInitial)
  /\ blockExplorer' = BlockExplorerInitial
  /\ explorerOnEnter' = ExplorerClosure(BlockExplorerInitial)
  /\ registerPage' = RegisterPageInitial
  /\ requests' = Unmounted(requests)
  /\ registrations' = Unmounted(registrations)
  /\ lastStep' = Other
  /\ UNCHANGED <<active, llms, loadingModels, modelFetches, fetchLog, toasts, shownFor>>

(***************************************************************************)
(* ChatPage                                                                *)
(***************************************************************************)
UserMessage(q) == [role |-> "user", text |-> JsString(q), via |-> Undefined]

\* a bug to detect: the conversation is replaced by the new message
MessagesReplaced(messages, msg) == <<msg>>

\* setMessages((m) => [...m, msg])
AppendMessage(messages, msg) == Append(messages, msg)

\* a bug to detect: response_generated_via is dropped
AiMessageWithoutVia(text, via) == [role |-> "ai", text |-> text, via |-> Undefined]

AiMessage(text, via) == [role |-> "ai", text |-> text, via |-> via]

\* Number(s) for the value of an <option>
ToNumber(s) ==
  LET r == ScanNumber(s, 1)
  IN  IF r.ok /\ r.pos = Len(s) + 1 THEN r.val ELSE JsNumber(<<"N", "a", "N">>)

\* String(m.id)
StringOf(val) == val.v

\* the values of the <option>s of modelSelect; ChatPage is given llms ?? []
ModelOptions ==
  {Auto} \cup
  (IF llms.t = "array"
     THEN {StringOf(Prop(llms.v[i], ID)) : i \in 1..Len(llms.v)}
     ELSE {})

\* a bug to detect: the input is sent as typed
QueryUntrimmed(input) == input

\* const q = input.trim()
Query(input) == Trim(input)

\* a bug to detect: the early return is missing
BlankNotChecked(q) == FALSE

\* if (!q) return
Blank(q) == q = <<>>

\* const modelId = selectedModel === 'auto' ? null : Number(selectedModel)
ModelId(selectedModel) ==
  IF selectedModel = Auto THEN JsNull ELSE ToNumber(selectedModel)

ChatRequest(q, modelId) ==
  [page |-> "chat", mounted |-> TRUE, query |-> q, modelId |-> modelId]

SendEffects == <<"setInput", "setMessages", "setLoading", "fetch">>

\* the textarea: onChange={(e) => setInput(e.target.value)}; input changed, so
\* the effect registers the onEnter of this render
ChatSetInput(text) ==
  /\ mounted
  /\ active = "chat"
  /\ text \in Inputs
  /\ text # chatPage.input
  /\ chatPage' = [chatPage EXCEPT !.input = text]
  /\ chatOnEnter' = ChatClosure(chatPage')
  /\ lastStep' = Other
  /\ UNCHANGED <<mounted, registerPage, registrations, fetchLog, active, llms, loadingModels, modelFetches, toasts, timers, shownFor,
                 blockExplorer, explorerOnEnter, requests>>

\* modelSelect: onChange={(e) => setSelectedModel(e.target.value)}; the effect
\* depends on [input] alone and does not run
SetSelectedModel(value) ==
  /\ mounted
  /\ active = "chat"
  /\ value \in ModelOptions
  /\ value # chatPage.selectedModel
  /\ chatPage' = [chatPage EXCEPT !.selectedModel = value]
  /\ lastStep' = Other
  /\ UNCHANGED <<mounted, registerPage, registrations, fetchLog, active, llms, loadingModels, modelFetches, toasts, timers, shownFor,
                 chatOnEnter, blockExplorer, explorerOnEnter, requests>>

\* sendMessage() of the render that `closure` was taken from, up to its await
ChatSendMessage(closure, by) ==
  LET q == Query(closure.input)
      req == ChatRequest(q, ModelId(closure.selectedModel))
  IN  IF Blank(q)
        THEN /\ lastStep' = Step("sendMessage", "chat", by, <<>>)
             /\ UNCHANGED <<chatPage, chatOnEnter, requests>>
        ELSE /\ Len(chatPage.messages) < MaxMessages
             /\ Len(requests) < MaxRequests
             /\ chatPage' = [chatPage EXCEPT !.input = <<>>,
                                             !.messages = AppendMessage(@, UserMessage(q)),
                                             !.loading = TRUE]
             /\ chatOnEnter' = IF chatPage'.input # chatPage.input
                                 THEN ChatClosure(chatPage')
                                 ELSE chatOnEnter
             /\ requests' = Append(requests, req)
             /\ lastStep' = Step("sendMessage", "chat", by, SendEffects)

\* <button onClick={sendMessage} disabled={loading || !input.trim()}>
ChatClickSend ==
  /\ mounted
  /\ active = "chat"
  /\ ~(chatPage.loading \/ Trim(chatPage.input) = <<>>)
  /\ ChatSendMessage(ChatClosure(chatPage), "click")
  /\ UNCHANGED <<mounted, registerPage, registrations, fetchLog, active, llms, loadingModels, modelFetches, toasts, timers, shownFor,
                 blockExplorer, explorerOnEnter>>

\* the keydown listener of window, for Cmd/Ctrl+Enter: onEnter calls the
\* sendMessage of the render in which the effect last ran
ChatKeySend ==
  /\ mounted
  /\ active = "chat"
  /\ ChatSendMessage(chatOnEnter, "key")
  /\ UNCHANGED <<mounted, registerPage, registrations, fetchLog, active, llms, loadingModels, modelFetches, toasts, timers, shownFor,
                 blockExplorer, explorerOnEnter>>

\* what `await apiPost('/chat', ...)` and the two lines after it come to:
\* the message to append, or the error caught
ChatReply(got) ==
  IF got.threw THEN got
  ELSE IF PropThrows(got.data) THEN Throw(CannotReadProperties)
  ELSE Return(AiMessage(Prop(got.data, RESPONSE),
                        Prop(got.data, RESPONSE_GENERATED_VIA)))

ChatOutcome(resp) == ChatReply(ApiPost(resp))

\* the outcome of each response, worked out once
ChatOutcomes == [resp \in ChatResponses |-> ChatOutcome(resp)]

\* a bug to detect: the flag is left as it is
LoadingKept(page) == page

\* finally { setLoading(false) }
LoadingCleared(page) == [page EXCEPT !.loading = FALSE]

ReplyEffects == <<"setMessages", "setLoading">>
FailureEffects == <<"toast.push", "setLoading">>

\* sendMessage() from its await on: try / catch / finally.  The setters of a
\* page that was unmounted change nothing; the toast store is app-wide.
ChatResponse(i, resp) ==
  LET req == requests[i]
      out == ChatOutcomes[resp]
  IN  /\ i \in 1..Len(requests)
      /\ req.page = "chat"
      /\ resp \in ChatResponses
      /\ requests' = RemoveAt(requests, i)
      /\ IF out.threw
           THEN /\ Room
                /\ SetToasts(Push(toasts, ParseApiError(out), "error"))
                /\ chatPage' = IF req.mounted THEN LoadingCleared(chatPage) ELSE chatPage
                /\ lastStep' = Step("response", "chat", "none", FailureEffects)
           ELSE /\ ToastsUnchanged
                /\ chatPage' =
                     IF req.mounted
                       THEN LoadingCleared([chatPage EXCEPT !.messages = AppendMessage(@, out.data)])
                       ELSE chatPage
                /\ lastStep' = Step("response", "chat", "none", ReplyEffects)
      /\ UNCHANGED <<mounted, registerPage, registrations, fetchLog, active, llms, loadingModels, modelFetches, chatOnEnter,
                     blockExplorer, explorerOnEnter>>

(***************************************************************************)
(* BlockExplorerChat                                                       *)
(***************************************************************************)
ExplorerRequest(q) ==
  [page |-> "block-explorer", mounted |-> TRUE, query |-> q, modelId |-> Undefined]

ExplorerSetInput(text) ==
  /\ mounted
  /\ active = "block-explorer"
  /\ text \in Inputs
  /\ text # blockExplorer.input
  /\ blockExplorer' = [blockExplorer EXCEPT !.input = text]
  /\ explorerOnEnter' = ExplorerClosure(blockExplorer')
  /\ lastStep' = Other
  /\ UNCHANGED <<mounted, registerPage, registrations, fetchLog, active, llms, loadingModels, modelFetches, toasts, timers, shownFor,
                 chatPage, chatOnEnter, requests>>

ExplorerSendMessage(closure, by) ==
  LET q == Query(closure.input)
      req == ExplorerRequest(q)
  IN  IF Blank(q)
        THEN /\ lastStep' =
                  Step("sendMessage", "block-explorer", by, <<>>)
             /\ UNCHANGED <<blockExplorer, explorerOnEnter, requests>>
        ELSE /\ Len(blockExplorer.messages) < MaxMessages
             /\ Len(requests) < MaxRequests
             /\ blockExplorer' = [blockExplorer EXCEPT !.input = <<>>,
                                                       !.messages = AppendMessage(@, UserMessage(q)),
                                                       !.loading = TRUE]
             /\ explorerOnEnter' = IF blockExplorer'.input # blockExplorer.input
                                     THEN ExplorerClosure(blockExplorer')
                                     ELSE explorerOnEnter
             /\ requests' = Append(requests, req)
             /\ lastStep' =
                  Step("sendMessage", "block-explorer", by, SendEffects)

ExplorerClickSend ==
  /\ mounted
  /\ active = "block-explorer"
  /\ ~(blockExplorer.loading \/ Trim(blockExplorer.input) = <<>>)
  /\ ExplorerSendMessage(ExplorerClosure(blockExplorer), "click")
  /\ UNCHANGED <<mounted, registerPage, registrations, fetchLog, active, llms, loadingModels, modelFetches, toasts, timers, shownFor,
                 chatPage, chatOnEnter>>

ExplorerKeySend ==
  /\ mounted
  /\ active = "block-explorer"
  /\ ExplorerSendMessage(explorerOnEnter, "key")
  /\ UNCHANGED <<mounted, registerPage, registrations, fetchLog, active, llms, loadingModels, modelFetches, toasts, timers, shownFor,
                 chatPage, chatOnEnter>>

\* the text shown for the body raw, p being the outcome of JSON.parse(raw)
MarkdownOf(raw, p) ==
  IF ~p.ok THEN raw
  ELSE IF p.val.t = "string" THEN p.val.v
  ELSE IF /\ p.val.t \in {"object", "array"}
          /\ HasProp(p.val, RESPONSE)
          /\ Prop(p.val, RESPONSE).t = "string"
    THEN Prop(p.val, RESPONSE).v
  ELSE raw

\* a bug to detect: the body is shown as received
MarkdownRaw(raw) == raw

\* let md = raw; try { parsed = JSON.parse(raw); ... } catch {}
Markdown(raw) == MarkdownOf(raw, JSONParse(raw))

ExplorerReply(res) ==
  IF res.threw THEN res
  ELSE Return(AiMessage(JsString(Markdown(res.data.v)), Undefined))

ExplorerOutcome(resp) == ExplorerReply(Fetched(resp))

ExplorerOutcomes == [resp \in BlockExplorerResponses |-> ExplorerOutcome(resp)]

ExplorerResponse(i, resp) ==
  LET req == requests[i]
      out == ExplorerOutcomes[resp]
  IN  /\ i \in 1..Len(requests)
      /\ req.page = "block-explorer"
      /\ resp \in BlockExplorerResponses
      /\ requests' = RemoveAt(requests, i)
      /\ IF out.threw
           THEN /\ Room
                /\ SetToasts(Push(toasts, ParseApiError(out), "error"))
                /\ blockExplorer' =
                     IF req.mounted THEN LoadingCleared(blockExplorer) ELSE blockExplorer
                /\ lastStep' =
                     Step("response", "block-explorer", "none", FailureEffects)
           ELSE /\ ToastsUnchanged
                /\ blockExplorer' =
                     IF req.mounted
                       THEN LoadingCleared(
                              [blockExplorer EXCEPT !.messages = AppendMessage(@, out.data)])
                       ELSE blockExplorer
                /\ lastStep' =
                     Step("response", "block-explorer", "none", ReplyEffects)
      /\ UNCHANGED <<mounted, registerPage, registrations, fetchLog, active, llms, loadingModels, modelFetches, chatPage, chatOnEnter,
                     explorerOnEnter>>

(***************************************************************************)
(* RegisterPage                                                            *)
(***************************************************************************)
NamesRequired ==
  << "M", "o", "d", "e", "l", " ", "n", "a", "m", "e", " ", "a", "n", "d", " ",
     "c", "o", "m", "p", "a", "n", "y", " ", "a", "r", "e", " ",
     "r", "e", "q", "u", "i", "r", "e", "d" >>
ModelRegistered ==
  << "M", "o", "d", "e", "l", " ", "r", "e", "g", "i", "s", "t", "e", "r", "e", "d" >>

\* toast.push({ text }) gives the toast no type
NoType == "undefined"

\* what is typed into modelName and companyName, and into baseUrl and apiKey
NameValues == {<<>>, <<" ">>, <<"a">>}
OptionalValues == {<<>>, <<"a">>}
TextFields == {"modelName", "companyName", "baseUrl", "apiKey"}
ValuesOf(field) ==
  IF field \in {"modelName", "companyName"} THEN NameValues ELSE OptionalValues

\* the body of an Llm
LlmBody == <<"{">> \o Quoted(ID) \o <<":", "7", "}">>

RegisterResponses == Failures \cup {Http(TRUE, LlmBody), Http(TRUE, Hi)}

\* baseUrl || null, apiKey || null
OrNull(text) == IF text = <<>> THEN JsNull ELSE JsString(text)

\* { modelName, companyName, baseUrl: baseUrl || null, apiKey: apiKey || null,
\*   openAiCompatible }
RegisterBody(page) ==
  [modelName |-> page.modelName, companyName |-> page.companyName,
   baseUrl |-> OrNull(page.baseUrl), apiKey |-> OrNull(page.apiKey),
   openAiCompatible |-> page.openAiCompatible]

Registration(page) == [mounted |-> TRUE, body |-> RegisterBody(page)]

\* onChange={(e) => setModelName(e.target.value)} and its three likes
RegisterSetField(field, text) ==
  /\ mounted
  /\ active = "register"
  /\ field \in TextFields
  /\ text \in ValuesOf(field)
  /\ text # registerPage[field]
  /\ registerPage' = [registerPage EXCEPT ![field] = text]
  /\ lastStep' = Other
  /\ UNCHANGED <<mounted, registrations, fetchLog, active, llms, loadingModels,
                 modelFetches, toasts, timers, shownFor, chatPage, chatOnEnter,
                 blockExplorer, explorerOnEnter, requests>>

\* the switch: onClick={() => setOpenAiCompatible((v) => !v)}
ToggleOpenAiCompatible ==
  /\ mounted
  /\ active = "register"
  /\ registerPage' = [registerPage EXCEPT !.openAiCompatible = ~@]
  /\ lastStep' = Other
  /\ UNCHANGED <<mounted, registrations, fetchLog, active, llms, loadingModels,
                 modelFetches, toasts, timers, shownFor, chatPage, chatOnEnter,
                 blockExplorer, explorerOnEnter, requests>>

\* a bug to detect: the names are tested as typed
NamesBlankUntrimmed(page) == page.modelName = <<>> \/ page.companyName = <<>>

\* if (!modelName.trim() || !companyName.trim())
NamesBlank(page) == Trim(page.modelName) = <<>> \/ Trim(page.companyName) = <<>>

\* the form is submitted: the submit button is disabled while submitting, and
\* the browser submits no form whose `required` inputs are empty.  onSubmit
\* runs up to its await; a rejected submission is taken only while the store
\* has room for its toast.
OnSubmit ==
  /\ mounted
  /\ active = "register"
  /\ ~registerPage.submitting
  /\ registerPage.modelName # <<>>
  /\ registerPage.companyName # <<>>
  /\ IF NamesBlank(registerPage)
       THEN /\ Room
            /\ SetToasts(Push(toasts, NamesRequired, "error"))
            /\ lastStep' = Step("onSubmit", "register", "none", <<"toast.push">>)
            /\ UNCHANGED <<registerPage, registrations>>
       ELSE /\ Len(registrations) < MaxRegistrations
            /\ registerPage' = [registerPage EXCEPT !.submitting = TRUE]
            /\ registrations' = Append(registrations, Registration(registerPage))
            /\ lastStep' = Step("onSubmit", "register", "none", <<"setSubmitting", "fetch">>)
            /\ ToastsUnchanged
  /\ UNCHANGED <<mounted, fetchLog, active, llms, loadingModels, modelFetches, chatPage,
                 chatOnEnter, blockExplorer, explorerOnEnter, requests>>

RegisterOutcomes == [resp \in RegisterResponses |-> ApiPost(resp)]

\* a bug to detect: the switch is left as it was set
FormClearedButSwitch(page) ==
  [page EXCEPT !.modelName = <<>>, !.companyName = <<>>, !.baseUrl = <<>>,
               !.apiKey = <<>>]

\* setModelName(''); setCompanyName(''); setBaseUrl(''); setApiKey('');
\* setOpenAiCompatible(true)
FormCleared(page) ==
  [page EXCEPT !.modelName = <<>>, !.companyName = <<>>, !.baseUrl = <<>>,
               !.apiKey = <<>>, !.openAiCompatible = TRUE]

\* a bug to detect: the flag is left up
SubmittingKept(page) == page

\* finally { setSubmitting(false) }
SubmittingCleared(page) == [page EXCEPT !.submitting = FALSE]

\* onSubmit from its await on: try / catch / finally.  onRegistered calls
\* reloadModels, which issues GET /.  Either way one toast is pushed: the
\* response is delivered only while the store has room for it.
RegisterResponse(i, resp) ==
  LET reg == registrations[i]
      got == RegisterOutcomes[resp]
  IN  /\ i \in 1..Len(registrations)
      /\ resp \in RegisterResponses
      /\ Room
      /\ registrations' = RemoveAt(registrations, i)
      /\ IF got.threw
           THEN /\ SetToasts(Push(toasts, ParseApiError(got), "error"))
                /\ registerPage' = IF reg.mounted THEN SubmittingCleared(registerPage)
                                                  ELSE registerPage
                /\ lastStep' = Step("response", "register", "none",
                                    <<"toast.push", "setSubmitting">>)
                /\ UNCHANGED <<modelFetches, fetchLog>>
           ELSE /\ Len(fetchLog) < MaxFetches
                /\ SetToasts(Push(toasts, ModelRegistered, NoType))
                /\ registerPage' = IF reg.mounted
                                     THEN SubmittingCleared(FormCleared(registerPage))
                                     ELSE registerPage
                /\ modelFetches' =
                     Append(modelFetches, ModelFetch("reload", Len(fetchLog) + 1))
                /\ fetchLog' = Append(fetchLog, Pending("reload"))
                /\ lastStep' = Step("response", "register", "none",
                                    <<"toast.push", "setFields", "onRegistered",
                                      "setSubmitting">>)
      /\ UNCHANGED <<mounted, active, llms, loadingModels, chatPage, chatOnEnter,
                     blockExplorer, explorerOnEnter, requests>>

\* the Refresh button: window.location.reload().  The page is loaded anew;
\* what was in flight is dropped with the old document.
Reload ==
  /\ mounted' = TRUE
  /\ active' = "chat"
  /\ llms' = JsNull
  /\ loadingModels' = TRUE
  /\ modelFetches' = <<ModelFetch("mount", 1)>>
  /\ fetchLog' = <<Pending("mount")>>
  /\ registerPage' = RegisterPageInitial
  /\ registrations' = <<>>
  /\ SetToasts(<<>>)
  /\ chatPage' = ChatPageInitial
  /\ chatOnEnter' = ChatClosure(ChatPageInitial)
  /\ blockExplorer' = BlockExplorerInitial
  /\ explorerOnEnter' = ExplorerClosure(BlockExplorerInitial)
  /\ requests' = <<>>
  /\ lastStep' = Other

(***************************************************************************)
(* Specification                                                           *)
(***************************************************************************)
\* App is mounted on the "chat" tab and its effect has issued GET /
Init ==
  /\ mounted = TRUE
  /\ active = "chat"
  /\ llms = JsNull
  /\ loadingModels = TRUE
  /\ modelFetches = <<ModelFetch("mount", 1)>>
  /\ fetchLog = <<Pending("mount")>>
  /\ registerPage = RegisterPageInitial
  /\ registrations = <<>>
  /\ toasts = <<>>
  /\ timers = <<>>
  /\ shownFor = <<>>
  /\ chatPage = ChatPageInitial
  /\ chatOnEnter = ChatClosure(ChatPageInitial)
  /\ blockExplorer = BlockExplorerInitial
  /\ explorerOnEnter = ExplorerClosure(BlockExplorerInitial)
  /\ requests = <<>>
  /\ lastStep = Other

Next ==
  \/ \E i \in 1..Len(modelFetches), resp \in ModelResponses : ModelsResponse(i, resp)
  \/ \E tab \in Tabs : SetActive(tab)
  \/ Reload
  \/ \E i \in 1..Len(timers) : TimerFires(i)
  \/ Tick
  \/ \E text \in Inputs : ChatSetInput(text)
  \/ \E value \in ModelOptions : SetSelectedModel(value)
  \/ ChatClickSend
  \/ ChatKeySend
  \/ \E i \in 1..Len(requests), resp \in ChatResponses : ChatResponse(i, resp)
  \/ \E text \in Inputs : ExplorerSetInput(text)
  \/ ExplorerClickSend
  \/ ExplorerKeySend
  \/ \E i \in 1..Len(requests), resp \in BlockExplorerResponses : ExplorerResponse(i, resp)

Spec == Init /\ [][Next]_vars

\* App with RegisterPage, the refreshes of the model list and the teardown
AppNext ==
  \/ \E i \in 1..Len(modelFetches), resp \in ModelResponses : ModelsResponse(i, resp)
  \/ \E tab \in Tabs : SetActive(tab)
  \/ Unmount
  \/ Reload
  \/ \E i \in 1..Len(timers) : TimerFires(i)
  \/ Tick
  \/ \E field \in TextFields, text \in NameValues : RegisterSetField(field, text)
  \/ ToggleOpenAiCompatible
  \/ OnSubmit
  \/ \E i \in 1..Len(registrations), resp \in RegisterResponses : RegisterResponse(i, resp)

AppSpec == Init /\ [][AppNext]_vars

(***************************************************************************)
(* Properties                                                              *)
(***************************************************************************)
Last(seq) == seq[Len(seq)]

\* the step is a call of sendMessage on `page`
SendStep(page) == lastStep'.op = "sendMessage" /\ lastStep'.page = page

\* C1: on either page, a send attempt made while loading is true, by the Send
\* button or by Cmd/Ctrl+Enter, issues no request and appends no message.
C1_SendWhileLoadingRejected ==
  [][ /\ (SendStep("chat") /\ chatPage.loading)
           => (requests' = requests /\ chatPage'.messages = chatPage.messages)
      /\ (SendStep("block-explorer") /\ blockExplorer.loading)
           => (requests' = requests /\ blockExplorer'.messages = blockExplorer.messages)
    ]_vars

\* C2: a toast pushed at time T is no longer in the store after T + 3.5 s,
\* whatever else was pushed or removed in between.
C2_ToastGoneAfterTimeout ==
  \A i \in 1..Len(toasts) :
    ElapsedMs(shownFor[toasts[i].id]) <= ToastTimeoutMs

\* what a send of the non-blank text of `page` must do: one user message with
\* the trimmed text is appended, one request carrying it is issued, and the
\* append is called before the request goes out
SendsOnce(page, pageNext, name) ==
  LET q == Trim(page.input)
  IN  (SendStep(name) /\ q # <<>>) =>
        /\ pageNext.messages = Append(page.messages, UserMessage(q))
        /\ Len(requests') = Len(requests) + 1
        /\ SubSeq(requests', 1, Len(requests)) = requests
        /\ Last(requests').page = name
        /\ Last(requests').query = q
        /\ \E m \in 1..Len(lastStep'.effects), f \in 1..Len(lastStep'.effects) :
             /\ m < f
             /\ {k \in 1..Len(lastStep'.effects) : lastStep'.effects[k] = "setMessages"} = {m}
             /\ {k \in 1..Len(lastStep'.effects) : lastStep'.effects[k] = "fetch"} = {f}

\* C3: for a non-blank input, sendMessage on either page appends exactly one
\* user message carrying the trimmed text before the request is issued, and
\* issues exactly one request.
C3_SendAppendsUserThenRequests ==
  [][ /\ SendsOnce(chatPage, chatPage', "chat")
      /\ SendsOnce(blockExplorer, blockExplorer', "block-explorer") ]_vars

C3_Witness ==
  /\ lastStep = Step("sendMessage", "block-explorer", "key", SendEffects)
  /\ blockExplorer.messages = <<UserMessage(<<"a">>)>>
  /\ requests = <<ExplorerRequest(<<"a">>)>>

\* C4: for an empty or whitespace-only input, sendMessage on either page
\* changes nothing: conversation, input, in-flight flag, requests and toasts.
C4_BlankSendIsNoOp ==
  [][ /\ (SendStep("chat") /\ Trim(chatPage.input) = <<>>)
           => UNCHANGED <<chatPage, requests, toasts>>
      /\ (SendStep("block-explorer") /\ Trim(blockExplorer.input) = <<>>)
           => UNCHANGED <<blockExplorer, requests, toasts>> ]_vars

C4_Witness ==
  /\ lastStep = Step("sendMessage", "chat", "key", <<>>)
  /\ chatPage.input = <<" ">>

\* the text the toast of a failed dispatch must carry
FailureText(resp, text) ==
  IF resp.kind = "http"
    THEN text = (IF resp.body # <<>> THEN resp.body ELSE RequestFailed)
    ELSE text # <<>>

\* C5: when a chat dispatch on either page fails with a network error or a
\* non-2xx status, no AI message is appended and exactly one toast of type
\* error is pushed; for a non-2xx status its text is the response body, or
\* 'Request failed' when the body is empty.
C5_FailureRaisesOneErrorToast ==
  [][ \A i \in 1..Len(requests), resp \in Failures :
        (ChatResponse(i, resp) \/ ExplorerResponse(i, resp)) =>
          /\ chatPage'.messages = chatPage.messages
          /\ blockExplorer'.messages = blockExplorer.messages
          /\ Len(toasts') = Len(toasts) + 1
          /\ SubSeq(toasts', 1, Len(toasts)) = toasts
          /\ Last(toasts').type = "error"
          /\ FailureText(resp, Last(toasts').text) ]_vars

C5_Witness ==
  /\ lastStep = Step("response", "chat", "none", FailureEffects)
  /\ toasts # <<>>
  /\ Last(toasts).text = RequestFailed
  /\ Last(toasts).type = "error"
  /\ chatPage.messages = <<UserMessage(<<"a">>)>>

\* the body is JSON of the shape { response: string, ... }
StringResponseIn(p) == p.ok /\ p.val.t = "object" /\ Prop(p.val, RESPONSE).t = "string"
HasStringResponse(body) == StringResponseIn(JSONParse(body))

MalformedReplies ==
  {resp \in ChatResponses :
     /\ resp.kind = "http" /\ resp.ok
     /\ JSONParse(resp.body).ok
     /\ ~HasStringResponse(resp.body)}

\* C6: on the model-chat path a 2xx response whose body is valid JSON without
\* a string field `response` is a failure: no AI message, one error toast.
C6_MalformedShapeIsFailure ==
  [][ \A i \in 1..Len(requests), resp \in MalformedReplies :
        ChatResponse(i, resp) =>
          /\ chatPage'.messages = chatPage.messages
          /\ Len(toasts') = Len(toasts) + 1
          /\ Last(toasts').type = "error" ]_vars

\* C7: the modelId of every POST /chat is null when the selection is 'auto'
\* at the moment of the send, and the id of the selected model otherwise.
C7_ModelIdIsCurrentSelection ==
  [][ (SendStep("chat") /\ Len(requests') = Len(requests) + 1) =>
        Last(requests').modelId =
          (IF chatPage.selectedModel = Auto THEN JsNull
                                            ELSE JsNumber(chatPage.selectedModel)) ]_vars

\* C8: when the request of a dispatch resolves, with a reply, a failure or an
\* exception raised while the reply is parsed, the in-flight flag of the page
\* that issued it is false afterwards, and setLoading(false) is the last call
\* made, after the append of the AI message or the push of the toast.
FlagClearedLast(pageNext) ==
  /\ ~pageNext.loading
  /\ lastStep'.op = "response"
  /\ Len(lastStep'.effects) >= 2
  /\ Last(lastStep'.effects) = "setLoading"
  /\ \A k \in 1..(Len(lastStep'.effects) - 1) :
       lastStep'.effects[k] \in {"setMessages", "toast.push"}

C8_FlagClearedAfterOutcome ==
  [][ \A i \in 1..Len(requests) :
        /\ \A resp \in ChatResponses :
             (ChatResponse(i, resp) /\ requests[i].mounted) => FlagClearedLast(chatPage')
        /\ \A resp \in BlockExplorerResponses :
             (ExplorerResponse(i, resp) /\ requests[i].mounted)
               => FlagClearedLast(blockExplorer') ]_vars

\* the reply could not be parsed, and the flag is down
C8_Witness ==
  /\ lastStep = Step("response", "chat", "none", FailureEffects)
  /\ active = "chat"
  /\ toasts # <<>> /\ Last(toasts).text = UnexpectedToken
  /\ chatPage.messages = <<UserMessage(<<"a">>)>>
  /\ ~chatPage.loading
  /\ requests = <<>>

\* C9: for a reply {response: r, response_generated_via: v} to POST /chat,
\* exactly one AI message with text r and via v is appended to the
\* conversation of the page that sent it, and no toast is pushed.
C9_ReplyAppendsAiMessage ==
  [][ \A i \in 1..Len(requests) :
        (ChatResponse(i, Http(TRUE, ChatReplyBody)) /\ requests[i].mounted) =>
          /\ chatPage'.messages =
               Append(chatPage.messages,
                      [role |-> "ai", text |-> JsString(Hi), via |-> JsString(Gpt)])
          /\ toasts' = toasts ]_vars

C9_Witness ==
  /\ lastStep = Step("response", "chat", "none", ReplyEffects)
  /\ chatPage.messages =
       <<UserMessage(<<"a">>), [role |-> "ai", text |-> JsString(Hi), via |-> JsString(Gpt)]>>
  /\ toasts = <<>>

\* the text the claim gives for the three shapes of a 2xx body
ExplorerText(body, text) ==
  /\ body = Hi => text = JsString(Hi)                   \* not JSON: the raw body
  /\ body = Quoted(Hi) => text = JsString(Hi)           \* a JSON string: its value
  /\ body = ResponseObjectBody => text = JsString(Hi)   \* an object: its `response`

\* C10: for a 2xx block-explorer body, exactly one AI message is appended and
\* no toast is pushed; its text is the parsed value for a JSON string, the
\* `response` field for a JSON object with a string `response`, and the raw
\* body when the body is not JSON.
C10_ExplorerReplyText ==
  [][ \A i \in 1..Len(requests), resp \in BlockExplorerResponses :
        (ExplorerResponse(i, resp) /\ resp.kind = "http" /\ resp.ok /\ requests[i].mounted) =>
          /\ Len(blockExplorer'.messages) = Len(blockExplorer.messages) + 1
          /\ SubSeq(blockExplorer'.messages, 1, Len(blockExplorer.messages))
               = blockExplorer.messages
          /\ Last(blockExplorer'.messages).role = "ai"
          /\ ExplorerText(resp.body, Last(blockExplorer'.messages).text)
          /\ toasts' = toasts ]_vars

C10_Witness ==
  /\ lastStep = Step("response", "block-explorer", "none", ReplyEffects)
  /\ blockExplorer.messages = <<UserMessage(<<"a">>), AiMessage(JsString(Hi), Undefined)>>
  /\ toasts = <<>>


(***************************************************************************)
(* Properties of RegisterPage and of the model list, checked under AppSpec *)
(***************************************************************************)
\* one toast was appended to the store by the step
OneToastPushed ==
  /\ Len(toasts') = Len(toasts) + 1
  /\ SubSeq(toasts', 1, Len(toasts)) = toasts

\* no request of any kind was issued by the step
NoRequestIssued ==
  /\ registrations' = registrations
  /\ modelFetches' = modelFetches
  /\ fetchLog' = fetchLog
  /\ requests' = requests

\* C11: a submission of the registration form whose model name or provider
\* name is blank after trimming issues no network request, pushes exactly one
\* toast, and leaves the five fields and the submitting flag as they were.
C11_BlankNamesRejectedLocally ==
  [][ (OnSubmit /\ (Trim(registerPage.modelName) = <<>>
                      \/ Trim(registerPage.companyName) = <<>>)) =>
        /\ NoRequestIssued
        /\ OneToastPushed
        /\ registerPage' = registerPage ]_vars

C11_Witness ==
  /\ lastStep = Step("onSubmit", "register", "none", <<"toast.push">>)
  /\ registerPage.modelName = <<"a">>
  /\ registerPage.companyName = <<" ">>
  /\ ~registerPage.submitting
  /\ registrations = <<>>
  /\ toasts # <<>> /\ Last(toasts).text = NamesRequired

\* the five fields of the form
FieldsOf(page) ==
  <<page.modelName, page.companyName, page.baseUrl, page.apiKey, page.openAiCompatible>>

\* C12: when POST /register fails with a network error or a non-2xx status,
\* exactly one toast of type error is pushed, the step changes none of the
\* five fields, no GET / is issued, and the submitting flag of the form that
\* submitted is false afterwards.
C12_FailureKeepsForm ==
  [][ \A i \in 1..Len(registrations), resp \in Failures :
        RegisterResponse(i, resp) =>
          /\ OneToastPushed
          /\ Last(toasts').type = "error"
          /\ FailureText(resp, Last(toasts').text)
          /\ FieldsOf(registerPage') = FieldsOf(registerPage)
          /\ modelFetches' = modelFetches
          /\ fetchLog' = fetchLog
          /\ registrations[i].mounted => ~registerPage'.submitting ]_vars

\* the form still holds what was submitted, and can be submitted again
C12_Witness ==
  /\ lastStep = Step("response", "register", "none", <<"toast.push", "setSubmitting">>)
  /\ active = "register"
  /\ registerPage = [modelName |-> <<"a">>, companyName |-> <<"a">>, baseUrl |-> <<"a">>,
                     apiKey |-> <<>>, openAiCompatible |-> FALSE, submitting |-> FALSE]
  /\ toasts # <<>> /\ Last(toasts).type = "error" /\ Last(toasts).text = ModelNotFound
  /\ Len(fetchLog) = 1

\* POST /register was answered 2xx with a JSON body
Registered == {resp \in RegisterResponses :
                 resp.kind = "http" /\ resp.ok /\ JSONParse(resp.body).ok}

\* C13: when POST /register succeeds, the form that submitted is back at its
\* defaults (empty strings, openAiCompatible true), exactly one toast, the
\* confirmation, is pushed, and exactly one GET / is issued.
C13_SuccessResetsAndRefreshes ==
  [][ \A i \in 1..Len(registrations), resp \in Registered :
        RegisterResponse(i, resp) =>
          /\ registrations[i].mounted => registerPage' = RegisterPageInitial
          /\ OneToastPushed
          /\ Last(toasts').text = ModelRegistered
          /\ Last(toasts').type # "error"
          /\ Len(modelFetches') = Len(modelFetches) + 1
          /\ SubSeq(modelFetches', 1, Len(modelFetches)) = modelFetches
          /\ Last(modelFetches').origin = "reload"
          /\ Len(fetchLog') = Len(fetchLog) + 1 ]_vars

C13_Witness ==
  /\ lastStep = Step("response", "register", "none",
                     <<"toast.push", "setFields", "onRegistered", "setSubmitting">>)
  /\ active = "register"
  /\ registerPage = RegisterPageInitial
  /\ toasts # <<>> /\ Last(toasts).text = ModelRegistered
  /\ modelFetches # <<>> /\ Last(modelFetches).origin = "reload"

\* the GET / requests of fetchLog that the mount effect issued
MountFetches == {n \in 1..Len(fetchLog) : fetchLog[n].origin = "mount"}

\* what C14 says of a state
ModelListState ==
  /\ Cardinality(MountFetches) = 1
  /\ mounted => (loadingModels <=> \E n \in MountFetches : fetchLog[n].state = "pending")
  /\ (\A n \in 1..Len(fetchLog) : fetchLog[n].state # "ok") => llms = JsNull
  /\ llms = JsArray(<<>>) =>
       \E n \in 1..Len(fetchLog) :
          fetchLog[n].state = "ok" /\ fetchLog[n].data = JsArray(<<>>)

\* C14: one GET / is issued on load and loadingModels is true from then until
\* it resolves; when it fails, exactly one toast of type error is pushed and
\* llms is left as it was, null as long as no fetch has succeeded; llms is
\* the empty list only after a fetch that returned the empty list.
C14_InitialFetch ==
  [][ /\ ModelListState
      /\ ModelListState'
      /\ \A i \in 1..Len(modelFetches), resp \in ModelResponses :
           (ModelsResponse(i, resp) /\ modelFetches[i].origin = "mount" /\ mounted
              /\ ~resp.ok) =>
             /\ OneToastPushed
             /\ Last(toasts').type = "error"
             /\ llms' = llms
             /\ ~loadingModels' ]_vars

C14_Witness ==
  /\ mounted
  /\ fetchLog = <<Failed(Pending("mount"))>>
  /\ llms = JsNull
  /\ ~loadingModels
  /\ Len(toasts) = 1 /\ toasts[1].type = "error" /\ toasts[1].text = ModelNotFound

\* C16: when App is unmounted before its GET / resolves, the fetch is aborted
\* and its result is dropped: llms is not set and no toast is pushed by it.
C16_TeardownDiscardsFetch ==
  [][ \A i \in 1..Len(modelFetches), resp \in ModelResponses :
        (ModelsResponse(i, resp) /\ modelFetches[i].origin = "mount" /\ ~mounted) =>
          /\ llms' = llms
          /\ toasts' = toasts ]_vars

\* C18: once every GET / issued since load has resolved successfully, llms is
\* the list returned to the one issued last, in whatever order they resolved.
C18_LastIssuedFetchWins ==
  ( /\ mounted
    /\ Len(fetchLog) >= 2
    /\ \A n \in 1..Len(fetchLog) : fetchLog[n].state = "ok" )
  => llms = Last(fetchLog).data

(***************************************************************************)
(* Properties of the chat pages, checked under Spec                        *)
(***************************************************************************)
\* C15: when the page of a dispatch was left while the request was in flight,
\* its completion, reply or failure, is dropped: no message is appended to a
\* conversation, no loading flag changes, and no error is raised.
C15_CompletionAfterLeavingDiscarded ==
  [][ \A i \in 1..Len(requests) :
        /\ \A resp \in ChatResponses :
             (ChatResponse(i, resp) /\ ~requests[i].mounted) =>
               UNCHANGED <<chatPage, blockExplorer, toasts>>
        /\ \A resp \in BlockExplorerResponses :
             (ExplorerResponse(i, resp) /\ ~requests[i].mounted) =>
               UNCHANGED <<chatPage, blockExplorer, toasts>> ]_vars

\* new is old, or old with one message appended
AppendOnly(old, new) ==
  \/ new = old
  \/ Len(new) = Len(old) + 1 /\ SubSeq(new, 1, Len(old)) = old

\* C17: as long as a chat page stays mounted, every step (send, reply,
\* failure, input edit, model selection, timer) leaves its conversation as it
\* was or appends one message at its end.
C17_ConversationAppendOnly ==
  [][ (active' = active /\ ~Reload) =>
        /\ AppendOnly(chatPage.messages, chatPage'.messages)
        /\ AppendOnly(blockExplorer.messages, blockExplorer'.messages) ]_vars

C17_Witness ==
  /\ active = "chat"
  /\ lastStep = Step("response", "chat", "none", ReplyEffects)
  /\ Len(chatPage.messages) = 2
  /\ chatPage.messages[1] = UserMessage(<<"a">>)
  /\ chatPage.messages[2].role = "ai"

\* a request issued from `page` is in flight
Outstanding(page) == \E i \in 1..Len(requests) : requests[i].page = page

\* C19: the loading flag of the mounted chat page is true exactly when a
\* request issued from that page has not resolved yet.
C19_FlagIffOutstanding ==
  /\ active = "chat" => (chatPage.loading <=> Outstanding("chat"))
  /\ active = "block-explorer" => (blockExplorer.loading <=> Outstanding("block-explorer"))

=============================================================================
